---- MODULE Spec2Model ----
(***************************************************************************)
(* A model of the RAG knowledge base tool of the Guru MCP server           *)
(* (guru_mcp/tools/rag_knowledge_base.py): knowledge base lifecycle,       *)
(* document ingestion (deduplication, chunking, embedding, persistence)    *)
(* and similarity-ranked retrieval.                                        *)
(*                                                                         *)
(* Text is a sequence of one-character strings.  Offsets are Python's:     *)
(* 0-based, half-open, so content[start:end] is SubSeq(content,start+1,end)*)
(***************************************************************************)
EXTENDS Integers, Sequences, FiniteSets, TLC

(***************************************************************************)
(* Program constants.                                                      *)
(***************************************************************************)
chunk_size == 1000

chunk_overlap == 200

vector_size == 64

max_retrieval_chunks == 10

(***************************************************************************)
(* Arithmetic helpers.                                                     *)
(***************************************************************************)
Min2(a, b) == IF a <= b THEN a ELSE b

Max2(a, b) == IF a >= b THEN a ELSE b

(***************************************************************************)
(* Characters and Python's str methods.                                    *)
(***************************************************************************)
Whitespace == {" ", "\n"}

Lowercase == {"a", "b", "c", "d", "f", "g", "h", "i", "k", "o", "s", "t"}

Uppercase == {"C"}

Digits == {"1"}

IsSpace(c) == c \in Whitespace

\* str.isalpha() of one character
IsAlpha(c) == c \in Lowercase \cup Uppercase

\* str.isalnum() of one character
IsAlnum(c) == IsAlpha(c) \/ c \in Digits

\* str.lower() of one character
LowerChar(c) == IF c = "C" THEN "c" ELSE c

\* str.lower()
Lower(s) == [i \in 1..Len(s) |-> LowerChar(s[i])]

\* c * n
Rep(c, n) == [i \in 1..n |-> c]

\* str.strip(): the text without its leading and trailing whitespace
Strip(s) ==
    IF \A i \in 1..Len(s) : IsSpace(s[i]) THEN <<>>
    ELSE LET lo == CHOOSE i \in 1..Len(s) :
                       ~IsSpace(s[i]) /\ \A j \in 1..(i - 1) : IsSpace(s[j])
             hi == CHOOSE i \in 1..Len(s) :
                       ~IsSpace(s[i]) /\ \A j \in (i + 1)..Len(s) : IsSpace(s[j])
         IN  SubSeq(s, lo, hi)

\* str.rfind(ch, start, end): the highest offset in [start, end) holding ch, or -1
rfind(s, ch, start, end) ==
    LET at == {i \in start..(end - 1) : s[i + 1] = ch}
    IN  IF at = {} THEN -1 ELSE CHOOSE i \in at : \A j \in at : j <= i

\* the k-th smallest element of a set of numbers
Kth(S, k) == CHOOSE x \in S : Cardinality({y \in S : y < x}) = k - 1

\* str.split(): the maximal runs of non-whitespace characters, in order
Split(s) ==
    LET n == Len(s)
        starts == {i \in 1..n : ~IsSpace(s[i]) /\ (i = 1 \/ IsSpace(s[i - 1]))}
        ends   == {i \in 1..n : ~IsSpace(s[i]) /\ (i = n \/ IsSpace(s[i + 1]))}
    IN  [k \in 1..Cardinality(starts) |-> SubSeq(s, Kth(starts, k), Kth(ends, k))]

Range(q) == {q[i] : i \in 1..Len(q)}

(***************************************************************************)
(* The chunking algorithm.  One iteration of the while loop of             *)
(* _create_document_chunks, from a window start to the next one.           *)
(***************************************************************************)
ChunkEnd(content, start) ==
    LET end == Min2(start + chunk_size, Len(content))
        last_sentence_end ==
            Max2(rfind(content, ".", start, end),
                 Max2(rfind(content, "!", start, end), rfind(content, "?", start, end)))
    IN  IF end < Len(content) /\ last_sentence_end > start + (chunk_size \div 2)
        THEN last_sentence_end + 1
        ELSE end

\* a next start that keeps a full window before the end of the last one
StartOfLastWindow(start, end) == Max2(start, end - chunk_size)

\* a next start that steps back by the overlap from a full window
StartWithOverlap(start, end) == start + chunk_size - chunk_overlap

NextStart(start, end) == Max2(start + chunk_size - chunk_overlap, end)

\* the chunks list with the chunk of the iteration put in front
ChunkPrepend(content, start, chunks) ==
    LET end == ChunkEnd(content, start)
        chunk_content == Strip(SubSeq(content, start + 1, end))
    IN  IF chunk_content # <<>>
        THEN <<[content |-> chunk_content, start |-> start, end |-> end]>> \o chunks
        ELSE chunks

\* the chunks list with the end of the window recorded as the end of the chunk
ChunkWindow(content, start, chunks) ==
    LET end == ChunkEnd(content, start)
        chunk_content == Strip(SubSeq(content, start + 1, end))
    IN  IF chunk_content # <<>>
        THEN Append(chunks, [content |-> chunk_content, start |-> start,
                             end |-> start + chunk_size])
        ELSE chunks

\* the chunks list after the iteration that starts at `start`
ChunkAppend(content, start, chunks) ==
    LET end == ChunkEnd(content, start)
        chunk_content == Strip(SubSeq(content, start + 1, end))
    IN  IF chunk_content # <<>>
        THEN Append(chunks, [content |-> chunk_content, start |-> start, end |-> end])
        ELSE chunks

RECURSIVE ChunkLoop(_, _, _)
ChunkLoop(content, start, chunks) ==
    IF ~(start < Len(content)) THEN chunks
    ELSE LET next == NextStart(start, ChunkEnd(content, start))
             out  == ChunkAppend(content, start, chunks)
         IN  IF next >= Len(content) THEN out ELSE ChunkLoop(content, next, out)

create_document_chunks(content) == ChunkLoop(content, 0, <<>>)

(***************************************************************************)
(* The embedding.  Python's hash() of a str is keyed by a per-process      *)
(* random seed (PYTHONHASHSEED), so the bucket of a word is a function of  *)
(* the word and of the seed of the running process.                        *)
(*                                                                         *)
(* The code accumulates freq / len(words) per bucket and divides by the    *)
(* magnitude.  len(words) cancels, so the normalised vector is             *)
(* num[h] / sqrt(mag2) with num[h] the summed frequency of the words of    *)
(* bucket h and mag2 the sum of the squares of num; it is kept in that     *)
(* exact form, sparsely (buckets holding 0.0 are left out), with mag2 = 0  *)
(* for the all-zero vector.                                                *)
(***************************************************************************)
Alphabet == <<"a", "b", "c", "d", "f", "g", "h", "i", "k", "o", "s", "t", "C", "1",
              ".", "!", "?", "-", "_", " ", "\n">>

Code(c) == CHOOSE i \in 1..Len(Alphabet) : Alphabet[i] = c

\* hash(word) in the process whose hash seed is `seed`: a function of the seed
\* and of the word (its length and its first, middle and last characters)
hash(seed, word) ==
    IF Len(word) = 0 THEN 0
    ELSE (seed + 1) * (Len(word) * 31 + Code(word[1]) * 7
                        + Code(word[(Len(word) + 1) \div 2]) * 13)
         + (2 * seed + 1) * Code(word[Len(word)]) * 3

IsAlphaWord(word) == Len(word) > 0 /\ \A i \in 1..Len(word) : IsAlpha(word[i])

\* word_freq: the counted words (longer than 2, alphabetic) with their frequency
word_freq(words) ==
    LET kept == {w \in Range(words) : Len(w) > 2 /\ IsAlphaWord(w)}
    IN  [w \in kept |-> Cardinality({i \in 1..Len(words) : words[i] = w})]

RECURSIVE SumOver(_, _)
SumOver(f, S) ==
    IF S = {} THEN 0
    ELSE LET x == CHOOSE y \in S : TRUE IN f[x] + SumOver(f, S \ {x})

create_simple_embedding(seed, text) ==
    LET words == Split(Lower(text))
        freq == word_freq(words)
        bucket(w) == hash(seed, w) % vector_size
        used == {bucket(w) : w \in DOMAIN freq}
        num == [h \in used |-> SumOver(freq, {w \in DOMAIN freq : bucket(w) = h})]
    IN  [num |-> num, mag2 |-> SumOver([h \in used |-> num[h] * num[h]], used)]

(***************************************************************************)
(* Scores are fixed-point numbers with three decimals (Scale = 1.0).       *)
(***************************************************************************)
Scale == 10 * 10 * 10

\* floor of the square root
ISqrt(n) == CHOOSE r \in 0..(n + 1) : r * r <= n /\ (r + 1) * (r + 1) > n

\* dot_product / (magnitude1 * magnitude2), 0.0 when a magnitude is 0
calculate_cosine_similarity(vec1, vec2) ==
    LET common == DOMAIN vec1.num \cap DOMAIN vec2.num
        dot == SumOver([h \in common |-> vec1.num[h] * vec2.num[h]], common)
    IN  IF vec1.mag2 = 0 \/ vec2.mag2 = 0 THEN 0
        ELSE LET r == ISqrt((Scale * Scale * dot * dot) \div (vec1.mag2 * vec2.mag2))
             IN  Min2(r, Scale)

\* len(query_words & chunk_words) / len(query_words), 0 without query words
keyword_overlap(query, content) ==
    LET query_words == Range(Split(Lower(query)))
        chunk_words == Range(Split(Lower(content)))
    IN  IF query_words = {} THEN 0
        ELSE (Scale * Cardinality(query_words \cap chunk_words))
                 \div Cardinality(query_words)

\* vector_similarity * 0.7 + keyword_overlap * 0.3, in units of 1 / (10 * Scale)
combined_score(vector_similarity, overlap) == vector_similarity * 7 + overlap * 3

\* combined_score > 0.1
AboveThreshold(score) == score > Scale

(***************************************************************************)
(* Bounds of the model and the inputs the operations are called with.      *)
(***************************************************************************)
\* add_documents coroutines suspended at the same time
MaxCalls == 1

\* documents in one batch
MaxBatch == 2

\* documents stored in one knowledge base, over which no further batch is started
MaxDocs == 2

\* the largest max_results a query is called with
MaxResults == 2

\* the values of the per-process hash seed are 0..MaxSeed
MaxSeed == 1

\* the queries in flight at a time
MaxQueries == 1

Seeds == 0..MaxSeed

T_cats == <<"c", "a", "t", "s", " ", "d", "o", "g", "s">>

\* the same text with a trailing newline: another fingerprint, the same chunk text
T_catsnl == T_cats \o <<"\n">>

T_fish == <<"C", "a", "t", "s", " ", "f", "i", "s", "h">>

T_cat == <<"c", "a", "t", "s">>

T_blank == <<" ", "\n">>

\* two windows of chunk_size characters holding the same text
T_long == Rep("a", 2 * chunk_size)

\* two windows holding different texts
T_two == Rep("c", chunk_size) \o <<"d", "o", "g", "s">>

\* a chunk of more than 200 characters
T_mid == <<"d", "o", "g", "s", " ">> \o Rep("b", 200)

\* n characters with a sentence end at offset p: "aaa.bbb"
Sentence(n, p) ==
    [i \in 1..n |-> IF i = p + 1 THEN "." ELSE IF i <= p THEN "a" ELSE "b"]

\* the documents of the batches, by filename: the content of each
Corpus ==
    [ f \in {"cats.md", "copy.md", "catsnl.md", "fish.md", "cat.md", "blank.md",
             "empty.md", "long.md", "mid.md", "two.md"} |->
        CASE f = "cats.md" -> T_cats
          [] f = "copy.md" -> T_cats
          [] f = "catsnl.md" -> T_catsnl
          [] f = "fish.md" -> T_fish
          [] f = "two.md" -> T_two
          [] f = "cat.md" -> T_cat
          [] f = "blank.md" -> T_blank
          [] f = "empty.md" -> <<>>
          [] f = "long.md" -> T_long
          [] f = "mid.md" -> T_mid ]

BatchesOf(filenames) == UNION {[1..n -> filenames] : n \in 0..MaxBatch}

\* the documents argument of add_documents, as the filenames of its items
Batches == BatchesOf({"cats.md", "fish.md", "blank.md", "long.md"})

\* the batches of the calls that run while knowledge bases are deleted
LifecycleBatches == BatchesOf({"cats.md", "long.md"})

\* knowledge_base_name arguments: a name, a name with the same sanitization
\* and the missing name
KBNames == { <<"k", "b">>, <<"k", "!", "b">>, <<>> }

\* the names a create is called with: those, and a name whose sanitization is empty
CreateNames == KBNames \cup { <<"!">> }

\* the documents and the queries of the retrieval
QueryBatches == BatchesOf({"cats.md", "cat.md"}) \ {<<>>}

QueryNames == { <<"k", "b">> }

IngestNames == QueryNames \cup { <<>> }

Queries == { T_cat, <<"d", "o", "g", "s", " ", "f", "i", "s", "h">>,
             <<"b", "i", "t", "s">>, <<>> }

\* max_results arguments: the schema asks for an integer
MaxResultsArgs == (-1)..MaxResults

\* the contents the chunking loop is run on, on its own
ChunkLengths == {0, 1, 999, 1000, 1001, 1301, 1800, 2000}

SentenceEnds == {-1, 400, 500, 501, 600, 799, 800, 999}

ChunkContents ==
    {Sentence(n, p) : n \in ChunkLengths, p \in SentenceEnds}
        \cup {T_cats, T_blank, T_long, T_mid, Rep(" ", chunk_size + 1)}

\* the points of a run of the for loop at which the garbage collector may run:
\* before the document of the batch with that number
CollectPoints == SUBSET (2..MaxBatch)

NoPath == <<"?">>

(***************************************************************************)
(* State.                                                                  *)
(***************************************************************************)
VARIABLES
    fs,                 \* knowledge_base_dir: directory name -> knowledge base on disk
    calls,              \* the suspended add_documents coroutines, by task number
    connection_status,  \* core_bridge.connection_status
    hash_seed,          \* the hash seed of the running server process
    last,               \* what the operation that returned last returned
    chunker,            \* a run of the chunking loop on its own: content, start, chunks
    model_loaded,       \* phi4_wingman.model_loaded
    queries,            \* the suspended query coroutines, by task number
    sessions            \* SynthesisTool.sessions: session id -> session

vars == <<fs, calls, connection_status, hash_seed, last, chunker, model_loaded,
          queries, sessions>>

\* the state of the wingman and of the synthesis tool, and the queries in flight
rest == <<model_loaded, queries, sessions>>

(***************************************************************************)
(* The store.  A knowledge base directory holds config.json and the SQLite *)
(* database: the rows of documents, chunks and cognitive_analysis, in      *)
(* rowid order (the id of a row is its position), with the columns the     *)
(* tool reads back.  leaked_lock: a connection that was never closed holds *)
(* the database's write lock.                                              *)
(***************************************************************************)
\* the weighted sum of the character codes of s[lo..hi]
RECURSIVE Digest(_, _, _)
Digest(s, lo, hi) ==
    IF lo > hi THEN 0
    ELSE IF lo = hi THEN Code(s[lo]) * ((lo % 61) + 1)
    ELSE LET mid == (lo + hi) \div 2
         IN  (Digest(s, lo, mid) + Digest(s, mid + 1, hi)) % 65521

\* hashlib.md5(text.encode()).hexdigest(): a digest of fixed size
md5(text) == (Len(text) * 7919 + Digest(text, 1, Len(text))) % 1000003

\* the filesystem-safe name of a knowledge base
Sanitize(kb_name) ==
    Strip(SelectSeq(kb_name, LAMBDA c : IsAlnum(c) \/ c \in {"-", "_"}))

\* the cognitive systems of a knowledge base created without naming any
DefaultCognitiveSystems == <<"harmonic_analysis", "quantum_synthesis">>

NewKnowledgeBase(kb_name, description) ==
    [ config |-> [ name |-> kb_name, safe_name |-> Sanitize(kb_name),
                   description |-> description,
                   cognitive_systems |-> DefaultCognitiveSystems,
                   document_count |-> 0, chunk_count |-> 0 ],
      documents |-> <<>>, chunks |-> <<>>, cognitive_analysis |-> <<>>,
      leaked_lock |-> FALSE ]

\* the directory whose config.json names kb_name, or NoPath
load_knowledge_base_config(F, kb_name) ==
    LET found == {d \in DOMAIN F :
                     F[d].config.name = kb_name \/ F[d].config.safe_name = kb_name}
    IN  IF found = {} THEN NoPath ELSE CHOOSE d \in found : TRUE

\* the lookup of a fingerprint in the last row of the table only
LastDocumentIs(documents, content_hash) ==
    /\ documents # <<>>
    /\ documents[Len(documents)].content_hash = content_hash

\* SELECT id FROM documents WHERE content_hash = ?
DocumentExists(documents, content_hash) ==
    \E i \in 1..Len(documents) : documents[i].content_hash = content_hash

\* chunks.content_hash UNIQUE: a row of the table or of the open transaction has it
ChunkHashTaken(chunks, pending, content_hash) ==
    \/ \E i \in 1..Len(chunks) : chunks[i].content_hash = content_hash
    \/ \E i \in 1..Len(pending) : pending[i].content_hash = content_hash

\* the write lock as a database without open transactions holds it: by a
\* leaked connection only
LeakedOnly(F, C, d) == F[d].leaked_lock

\* the write lock of the database of directory d is held by another connection:
\* a leaked one, or the open transaction of one of the suspended coroutines C
Locked(F, C, d) ==
    \/ F[d].leaked_lock
    \/ \E c \in DOMAIN C : C[c].kb_path = d /\ ~C[c].orphan

\* the garbage collector frees the connections that were never closed: their
\* transactions roll back and their lock is released
Collected(F) == [d \in DOMAIN F |-> [F[d] EXCEPT !.leaked_lock = FALSE]]

EmptyMap == [x \in {} |-> x]

Put(f, x, v) == [y \in DOMAIN f \cup {x} |-> IF y = x THEN v ELSE f[y]]

Remove(f, x) == [y \in DOMAIN f \ {x} |-> f[y]]

ChunkerIdle == [pc |-> "idle"]

(***************************************************************************)
(* What _process_document_for_kb computes from the content of an item of   *)
(* the batch, for each document of the corpus: whether content.strip() is  *)
(* empty, the content hash, and the chunks with their hashes; and the      *)
(* embedding of each chunk in a process of each hash seed.                 *)
(***************************************************************************)
RECURSIVE ChunkRows(_, _, _)
ChunkRows(seed, chunks, n) ==
    IF n = 0 THEN <<>>
    ELSE Append(ChunkRows(seed, chunks, n - 1),
                [ content |-> chunks[n].content,
                  content_hash |-> md5(chunks[n].content),
                  start |-> chunks[n].start,
                  end |-> chunks[n].end,
                  vector_embedding |->
                      create_simple_embedding(seed, chunks[n].content) ])

ProcessedDocument(seed, f, content, chunks) ==
    [ seed |-> seed, filename |-> f,
      blank |-> Strip(content) = <<>>,
      content_hash |-> md5(content),
      size_bytes |-> Len(content),
      chunks |-> ChunkRows(seed, chunks, Len(chunks)) ]

ProcessedItems ==
    { ProcessedDocument(seed, f, Corpus[f], create_document_chunks(Corpus[f])) :
        seed \in Seeds, f \in DOMAIN Corpus }

\* the item of filename f as a process of hash seed `seed` computes it
Processed(seed, f) ==
    CHOOSE p \in ProcessedItems : p.seed = seed /\ p.filename = f

(***************************************************************************)
(* Ingestion.  add_documents is a coroutine: it runs on the event loop     *)
(* until it awaits the cognitive analysis of a chunk (asyncio.sleep in the *)
(* core bridge), and no other handler runs before it suspends.  A call     *)
(* record holds the locals of _add_documents_to_kb of a suspended          *)
(* coroutine and its open transaction: the document idx with its first i   *)
(* chunks and the analysis rows inserted so far.  orphan: the database     *)
(* file of the open transaction was unlinked.  overlapped records that     *)
(* another add_documents call on the same directory returned meanwhile.    *)
(***************************************************************************)
\* the chunks of an item of the batch, if chunk_documents
ChunksOf(k, item) ==
    IF k.chunk_documents THEN item.chunks ELSE <<>>

\* the for loop over the chunks of a document in which an analysis that cannot
\* be made ends the document with an error
RECURSIVE AnalyseOrAbort(_, _, _, _, _)
AnalyseOrAbort(k, chunks, stored, i, status) ==
    IF k.orphan THEN [kind |-> "error", leak |-> FALSE]
    ELSE IF i > Len(chunks) THEN [kind |-> "commit"]
    ELSE IF ChunkHashTaken(stored, SubSeq(chunks, 1, i - 1), chunks[i].content_hash)
         THEN [kind |-> "error", leak |-> TRUE]
    ELSE IF k.enable_cognitive_analysis /\ status = "connected"
         THEN [kind |-> "suspend", i |-> i]
    ELSE IF k.enable_cognitive_analysis THEN [kind |-> "error", leak |-> TRUE]
    ELSE AnalyseOrAbort(k, chunks, stored, i + 1, status)

\* The for loop over the chunks of a document, from chunk number i on, until an
\* INSERT fails, the coroutine awaits the analysis of chunk i, or all are inserted.
RECURSIVE ChunkInserts(_, _, _, _, _)
ChunkInserts(k, chunks, stored, i, status) ==
    IF k.orphan THEN [kind |-> "error", leak |-> FALSE]
    ELSE IF i > Len(chunks) THEN [kind |-> "commit"]
    ELSE IF ChunkHashTaken(stored, SubSeq(chunks, 1, i - 1), chunks[i].content_hash)
         THEN [kind |-> "error", leak |-> TRUE]
    ELSE IF k.enable_cognitive_analysis /\ status = "connected"
         THEN [kind |-> "suspend", i |-> i]
    ELSE ChunkInserts(k, chunks, stored, i + 1, status)

\* _process_document_for_kb from its first line to its first suspension, if any
StartDocument(F, C, k, item, status) ==
    IF item.blank THEN [kind |-> "none"]
    ELSE IF k.kb_path \notin DOMAIN F THEN [kind |-> "error", leak |-> FALSE]
    ELSE IF DocumentExists(F[k.kb_path].documents, item.content_hash)
         THEN [kind |-> "none"]
    ELSE IF Locked(F, C, k.kb_path) THEN [kind |-> "error", leak |-> FALSE]
    ELSE ChunkInserts(k, ChunksOf(k, item), F[k.kb_path].chunks, 1, status)

\* the row of table chunks for chunk number n of document document_id
ChunkRow(document_id, n, chunk) ==
    [ document_id |-> document_id, chunk_index |-> n - 1,
      content |-> chunk.content, content_hash |-> chunk.content_hash,
      start_position |-> chunk.start, end_position |-> chunk.end,
      vector_embedding |-> chunk.vector_embedding ]

\* the row of table cognitive_analysis for an analysis of the transaction
AnalysisRow(document_id, first_chunk_id, analysis) ==
    [ document_id |-> document_id, chunk_id |-> first_chunk_id + analysis.chunk,
      system_name |-> analysis.system_name ]

\* conn.commit(): the rows of the transaction of call k become rows of the store
Commit(kb, k, item) ==
    [kb EXCEPT
        !.documents = Append(@, [ filename |-> item.filename,
                                  content_hash |-> item.content_hash,
                                  size_bytes |-> item.size_bytes ]),
        !.chunks = @ \o [n \in 1..Len(ChunksOf(k, item)) |->
                            ChunkRow(Len(kb.documents) + 1, n, ChunksOf(k, item)[n])],
        !.cognitive_analysis =
            @ \o [n \in 1..Len(k.analysis) |->
                     AnalysisRow(Len(kb.documents) + 1, Len(kb.chunks), k.analysis[n])]]

\* the store of a connection that commits every INSERT as it is made: the
\* document row of a document whose chunk INSERT failed stays
StoreEachInsert(F, k, item, outcome) ==
    IF outcome.kind = "commit"
    THEN [F EXCEPT ![k.kb_path] = Commit(@, k, item)]
    ELSE IF outcome.kind = "error" /\ outcome.leak /\ k.kb_path \in DOMAIN F
         THEN [F EXCEPT ![k.kb_path].leaked_lock = TRUE,
                        ![k.kb_path].documents =
                            Append(@, [ filename |-> item.filename,
                                        content_hash |-> item.content_hash,
                                        size_bytes |-> item.size_bytes ])]
    ELSE F

\* the store after the document of call k ended with `outcome`
StoreAfter(F, k, item, outcome) ==
    IF outcome.kind = "commit"
    THEN [F EXCEPT ![k.kb_path] = Commit(@, k, item)]
    ELSE IF outcome.kind = "error" /\ outcome.leak /\ k.kb_path \in DOMAIN F
         THEN [F EXCEPT ![k.kb_path].leaked_lock = TRUE]
    ELSE F

\* the locals of _add_documents_to_kb after the next document
NextDocument(k) ==
    [k EXCEPT !.idx = @ + 1, !.pc = "loop", !.i = 0, !.analysis = <<>>,
              !.orphan = FALSE]

\* the locals of _add_documents_to_kb after the loop body of document idx
CallAfter(k, item, outcome) ==
    IF outcome.kind = "commit"
    THEN [NextDocument(k) EXCEPT
            !.added_documents =
                Append(@, [ filename |-> item.filename,
                            chunk_count |-> Len(ChunksOf(k, item)) ]),
            !.total_chunks_created = @ + Len(ChunksOf(k, item))]
    ELSE [NextDocument(k) EXCEPT !.skipped_documents = Append(@, item.filename)]

\* kb_config with every document of the batch counted as added
CountedBatch(k) ==
    [k.kb_config EXCEPT !.document_count = @ + Len(k.documents),
                        !.chunk_count = @ + k.total_chunks_created]

\* kb_config as _add_documents_to_kb writes it back after the loop
UpdatedConfig(k) ==
    [k.kb_config EXCEPT !.document_count = @ + Len(k.added_documents),
                        !.chunk_count = @ + k.total_chunks_created]

AddResult(k, status) ==
    [ op |-> "add_documents", kb_name |-> k.kb_name, documents |-> k.documents,
      path |-> k.kb_path, status |-> status,
      added |-> [n \in 1..Len(k.added_documents) |-> k.added_documents[n].filename],
      skipped |-> k.skipped_documents,
      total_chunks_created |-> k.total_chunks_created,
      document_count |-> UpdatedConfig(k).document_count,
      chunk_count |-> UpdatedConfig(k).chunk_count,
      overlapped |-> k.overlapped ]

\* The for loop of _add_documents_to_kb from document k.idx on, until the
\* coroutine suspends or the loop ends.  C are the other suspended coroutines;
\* the garbage collector runs before the documents numbered in `collect`.
RECURSIVE RunLoop(_, _, _, _, _, _)

\* the loop goes on after document k.idx ended with `outcome`, or the coroutine
\* suspends in the analysis of chunk outcome.i
Proceed(k, F, C, seed, status, collect, item, outcome) ==
    IF outcome.kind = "suspend"
    THEN [ kind |-> "suspend", F |-> F,
           k |-> [k EXCEPT !.pc = "harmonic", !.i = outcome.i] ]
    ELSE RunLoop(CallAfter(k, item, outcome), StoreAfter(F, k, item, outcome),
                 C, seed, status, collect)

\* the loop body for the item of document k.idx
ProcessItem(k, F, C, seed, status, collect, item) ==
    Proceed(k, F, C, seed, status, collect, item,
            StartDocument(F, C, k, item, status))

RunLoop(k, F, C, seed, status, collect) ==
    IF k.idx > Len(k.documents) THEN [kind |-> "return", k |-> k, F |-> F]
    ELSE ProcessItem(k, IF k.idx \in collect THEN Collected(F) ELSE F,
                     C, seed, status, collect,
                     Processed(seed, k.documents[k.idx]))

\* another add_documents call on directory d returned
MarkOverlapped(C, d) ==
    [c \in DOMAIN C |->
        IF C[c].kb_path = d THEN [C[c] EXCEPT !.overlapped = TRUE] ELSE C[c]]

\* The coroutine c after a run: suspended, or past the loop, where it writes
\* config.json (open(..., "w") raises when the directory is gone, and execute
\* returns the error) and returns.
Settle(c, run) ==
    IF run.kind = "suspend"
    THEN /\ Cardinality(DOMAIN calls \cup {c}) <= MaxCalls
         /\ calls' = Put(calls, c, run.k)
         /\ fs' = run.F
         /\ last' = last
    ELSE /\ calls' = MarkOverlapped(Remove(calls, c), run.k.kb_path)
         /\ IF run.k.kb_path \in DOMAIN run.F
            THEN /\ fs' = [run.F EXCEPT ![run.k.kb_path].config = UpdatedConfig(run.k)]
                 /\ last' = AddResult(run.k, "ok")
            ELSE /\ fs' = run.F
                 /\ last' = [op |-> "add_documents", kb_name |-> run.k.kb_name,
                             documents |-> run.k.documents, status |-> "failed"]

\* The fingerprints a batch would add at most to what directory d stores.
NewFingerprints(F, d, seed, documents) ==
    {Processed(seed, documents[n]).content_hash : n \in 1..Len(documents)}
        \ {F[d].documents[n].content_hash : n \in 1..Len(F[d].documents)}

\* the task number of a new coroutine
FreeCall == CHOOSE c \in 1..(MaxCalls + 1) : c \notin DOMAIN calls

\* the locals of _add_documents_to_kb before its for loop
NewCall(kb_name, documents, enable_cognitive_analysis, chunk_documents, d) ==
    [ kb_name |-> kb_name, documents |-> documents,
      enable_cognitive_analysis |-> enable_cognitive_analysis,
      chunk_documents |-> chunk_documents,
      kb_config |-> fs[d].config, kb_path |-> d,
      idx |-> 1, added_documents |-> <<>>,
      skipped_documents |-> <<>>, total_chunks_created |-> 0,
      pc |-> "loop", i |-> 0, analysis |-> <<>>,
      orphan |-> FALSE, overlapped |-> FALSE ]

\* not kb_name
NameRequired(kb_name, documents) == kb_name = <<>>

\* not kb_name or not documents
Required(kb_name, documents) == kb_name = <<>> \/ documents = <<>>

\* _add_documents_to_kb for the knowledge base of directory d, or its error
\* messages
AddDocumentsTo(d, kb_name, documents, enable_cognitive_analysis, chunk_documents, collect) ==
    IF Required(kb_name, documents)
    THEN /\ last' = [op |-> "add_documents", kb_name |-> kb_name,
                     batch_size |-> Len(documents), status |-> "required"]
         /\ UNCHANGED <<fs, calls>>
    ELSE IF d = NoPath
    THEN /\ last' = [op |-> "add_documents", kb_name |-> kb_name,
                     batch_size |-> Len(documents), status |-> "not_found"]
         /\ UNCHANGED <<fs, calls>>
    ELSE /\ Max2(Len(fs[d].documents), fs[d].config.document_count)
                + Cardinality(NewFingerprints(fs, d, hash_seed, documents)) <= MaxDocs
         /\ Settle(FreeCall,
                   RunLoop(NewCall(kb_name, documents, enable_cognitive_analysis,
                                   chunk_documents, d),
                           fs, calls, hash_seed, connection_status, collect))

\* add_documents, from the call to its first suspension or to its return
AddDocuments(kb_name, documents, enable_cognitive_analysis, chunk_documents, collect) ==
    /\ UNCHANGED <<connection_status, hash_seed, chunker, rest>>
    /\ AddDocumentsTo(load_knowledge_base_config(fs, kb_name), kb_name, documents,
                      enable_cognitive_analysis, chunk_documents, collect)

\* The chunk loop of coroutine c goes on after the analysis of chunk i, and the
\* for loop over the documents after it.
AfterAnalysis(c, k, item, collect) ==
    Settle(c, Proceed(k, fs, Remove(calls, c), hash_seed, connection_status,
                      collect, item,
                      ChunkInserts(k, ChunksOf(k, item),
                                   IF k.kb_path \in DOMAIN fs
                                   THEN fs[k.kb_path].chunks ELSE <<>>,
                                   k.i + 1, connection_status)))

\* the item the suspended coroutine c is processing
CurrentItem(c) == Processed(hash_seed, calls[c].documents[calls[c].idx])

\* the locals of coroutine c with the result of an analysis inserted
WithAnalysis(c, system_name) ==
    [calls[c] EXCEPT !.analysis =
        Append(@, [chunk |-> calls[c].i, system_name |-> system_name])]

\* a chunk of more than 200 characters goes to invoke_quantum_synthesizer, which
\* raises when the bridge is not connected (the exception ends the analysis)
HarmonicResult(c, k, item, collect) ==
    IF Len(ChunksOf(k, item)[k.i].content) > 200 /\ connection_status = "connected"
    THEN /\ calls' = [calls EXCEPT ![c] = [k EXCEPT !.pc = "quantum"]]
         /\ UNCHANGED <<fs, last>>
    ELSE AfterAnalysis(c, k, item, collect)

\* invoke_harmonic_analyzer returns and its result is inserted
ResumeHarmonic(c, collect) ==
    /\ c \in DOMAIN calls
    /\ calls[c].pc = "harmonic"
    /\ UNCHANGED <<connection_status, hash_seed, chunker, rest>>
    /\ HarmonicResult(c, WithAnalysis(c, "harmonic_analysis"), CurrentItem(c), collect)

\* invoke_quantum_synthesizer returns and its result is inserted
ResumeQuantum(c, collect) ==
    /\ c \in DOMAIN calls
    /\ calls[c].pc = "quantum"
    /\ UNCHANGED <<connection_status, hash_seed, chunker, rest>>
    /\ AfterAnalysis(c, WithAnalysis(c, "quantum_synthesis"), CurrentItem(c), collect)

\* the garbage collector runs while no coroutine does
CollectGarbage ==
    /\ \E d \in DOMAIN fs : fs[d].leaked_lock
    /\ fs' = Collected(fs)
    /\ UNCHANGED <<calls, connection_status, hash_seed, last, chunker, rest>>

(***************************************************************************)
(* Knowledge base lifecycle.  These handlers never await a suspending      *)
(* call, so each runs as one step of the event loop.                       *)
(***************************************************************************)
Descriptions == {"notes"}

\* what a create that looks for a directory of the name as given answers
CreateUnlessNamed(F, kb_name) ==
    IF kb_name = <<>> THEN "name_required"
    ELSE IF Sanitize(kb_name) = <<>> THEN "invalid_name"
    ELSE IF kb_name \in DOMAIN F THEN "already_exists"
    ELSE "created"

\* what create answers: the name is checked, then its sanitization, then the
\* existence of the directory of the sanitized name
CreateStatus(F, kb_name) ==
    IF kb_name = <<>> THEN "name_required"
    ELSE IF Sanitize(kb_name) = <<>> THEN "invalid_name"
    ELSE IF Sanitize(kb_name) \in DOMAIN F THEN "already_exists"
    ELSE "created"

\* the store after a create that answered `status`
Created(F, kb_name, description, status) ==
    IF status = "created"
    THEN Put(F, Sanitize(kb_name), NewKnowledgeBase(kb_name, description))
    ELSE F

CreateKnowledgeBase(kb_name, description) ==
    /\ UNCHANGED <<calls, connection_status, hash_seed, chunker, rest>>
    /\ fs' = Created(fs, kb_name, description, CreateStatus(fs, kb_name))
    /\ last' = [op |-> "create", kb_name |-> kb_name,
                status |-> CreateStatus(fs, kb_name)]

\* info: COUNT(*) of the documents and chunks tables
GetKnowledgeBaseInfo(kb_name) ==
    /\ UNCHANGED <<fs, calls, connection_status, hash_seed, chunker, rest>>
    /\ LET d == load_knowledge_base_config(fs, kb_name) IN
       last' = IF kb_name = <<>>
               THEN [op |-> "info", kb_name |-> kb_name, status |-> "name_required"]
               ELSE IF d = NoPath
               THEN [op |-> "info", kb_name |-> kb_name, status |-> "not_found"]
               ELSE [op |-> "info", kb_name |-> kb_name, status |-> "ok",
                     doc_count |-> Len(fs[d].documents),
                     chunk_count |-> Len(fs[d].chunks)]

\* shutil.rmtree(kb_path): the directory goes with its database and config.json;
\* a transaction a suspended coroutine holds open on it is left on an unlinked file
RemoveTree(F, d) == Remove(F, d)

\* what a delete that asks for no confirmation answers
DeleteAtOnce(F, kb_name, confirm) ==
    IF kb_name = <<>> THEN "name_required"
    ELSE IF load_knowledge_base_config(F, kb_name) = NoPath THEN "not_found"
    ELSE "deleted"

\* what delete answers: the name is checked, then the confirmation, then the
\* existence of the knowledge base
DeleteStatus(F, kb_name, confirm) ==
    IF kb_name = <<>> THEN "name_required"
    ELSE IF ~confirm THEN "confirm_required"
    ELSE IF load_knowledge_base_config(F, kb_name) = NoPath THEN "not_found"
    ELSE "deleted"

DeleteKnowledgeBase(kb_name, confirm) ==
    /\ UNCHANGED <<connection_status, hash_seed, chunker, rest>>
    /\ LET d == load_knowledge_base_config(fs, kb_name)
           status == DeleteStatus(fs, kb_name, confirm)
       IN  /\ fs' = IF status = "deleted" THEN RemoveTree(fs, d) ELSE fs
           /\ calls' = IF status = "deleted"
                       THEN [c \in DOMAIN calls |->
                                IF calls[c].kb_path = d
                                THEN [calls[c] EXCEPT !.orphan = TRUE]
                                ELSE calls[c]]
                       ELSE calls
           /\ last' = [op |-> "delete", kb_name |-> kb_name, confirm |-> confirm,
                       status |-> status]

(***************************************************************************)
(* Update and listing.  An argument the caller may leave out is None or    *)
(* Some(value).  The timestamps created_at and last_updated, which no      *)
(* operation reads back except to print and to order the listing, are not  *)
(* part of the model.                                                      *)
(***************************************************************************)
None == <<>>

Some(v) == <<v>>

\* an update that writes both settings, supplied or not
UpdateOverwrites(kb_config, new_description, new_cognitive_systems) ==
    [kb_config EXCEPT
        !.description = IF new_description # None THEN new_description[1] ELSE "",
        !.cognitive_systems =
            IF new_cognitive_systems # None THEN new_cognitive_systems[1] ELSE <<>>]

\* an update that writes the settings into a configuration with counts of zero
UpdateResetsCounts(kb_config, new_description, new_cognitive_systems) ==
    [kb_config EXCEPT
        !.description = IF new_description # None THEN new_description[1] ELSE @,
        !.cognitive_systems =
            IF new_cognitive_systems # None THEN new_cognitive_systems[1] ELSE @,
        !.document_count = 0,
        !.chunk_count = 0]

\* the configuration after an update: a setting is replaced when it is supplied
UpdatedSettings(kb_config, new_description, new_cognitive_systems) ==
    [kb_config EXCEPT
        !.description = IF new_description # None THEN new_description[1] ELSE @,
        !.cognitive_systems =
            IF new_cognitive_systems # None THEN new_cognitive_systems[1] ELSE @]

UpdateKnowledgeBase(kb_name, new_description, new_cognitive_systems) ==
    /\ UNCHANGED <<calls, connection_status, hash_seed, chunker, rest>>
    /\ LET d == load_knowledge_base_config(fs, kb_name)
           args == [op |-> "update", kb_name |-> kb_name,
                    new_description |-> new_description,
                    new_cognitive_systems |-> new_cognitive_systems]
       IN  IF kb_name = <<>>
           THEN /\ fs' = fs
                /\ last' = [status |-> "name_required"] @@ args
           ELSE IF d = NoPath
           THEN /\ fs' = fs
                /\ last' = [status |-> "not_found"] @@ args
           ELSE LET kb_config ==
                        UpdatedSettings(fs[d].config, new_description,
                                        new_cognitive_systems)
                IN  /\ fs' = [fs EXCEPT ![d].config = kb_config]
                    /\ last' = [status |-> "ok", path |-> d,
                                description |-> kb_config.description,
                                cognitive_systems |-> kb_config.cognitive_systems]
                               @@ args

\* the listing: what config.json of every directory says, as a set (the code
\* orders it by last_updated)
ListKnowledgeBases ==
    /\ UNCHANGED <<fs, calls, connection_status, hash_seed, chunker, rest>>
    /\ last' = [op |-> "list", status |-> "ok",
                knowledge_bases |->
                    { [name |-> fs[d].config.name,
                       description |-> fs[d].config.description,
                       document_count |-> fs[d].config.document_count,
                       chunk_count |-> fs[d].config.chunk_count] : d \in DOMAIN fs }]

(***************************************************************************)
(* Retrieval.                                                              *)
(***************************************************************************)
\* the chunk rows that pass the threshold, scored, in the order of the SELECT
RECURSIVE ScoredChunks(_, _, _, _)
ScoredChunks(chunks, query, query_embedding, n) ==
    IF n = 0 THEN <<>>
    ELSE LET vector_similarity ==
                 calculate_cosine_similarity(query_embedding, chunks[n].vector_embedding)
             overlap == keyword_overlap(query, chunks[n].content)
             score == combined_score(vector_similarity, overlap)
             before == ScoredChunks(chunks, query, query_embedding, n - 1)
         IN  IF AboveThreshold(score)
             THEN Append(before, [ chunk_id |-> n,
                                   document_id |-> chunks[n].document_id,
                                   score |-> score ])
             ELSE before

\* list.sort(key=score, reverse=True): descending and stable
RECURSIVE SortByScore(_)
SortByScore(scored) ==
    IF Len(scored) <= 1 THEN scored
    ELSE LET x == scored[Len(scored)]
             front == SortByScore(SubSeq(scored, 1, Len(scored) - 1))
             ahead == Cardinality({n \in 1..Len(front) : front[n].score >= x.score})
         IN  SubSeq(front, 1, ahead) \o <<x>> \o SubSeq(front, ahead + 1, Len(front))

\* seq[:k]
SliceTo(seq, k) ==
    IF k >= 0 THEN SubSeq(seq, 1, Min2(k, Len(seq)))
    ELSE SubSeq(seq, 1, Max2(Len(seq) + k, 0))

retrieve_relevant_chunks(kb, query, max_results, seed) ==
    SliceTo(SortByScore(ScoredChunks(kb.chunks, query,
                                     create_simple_embedding(seed, query),
                                     Len(kb.chunks))),
            max_results)

\* the task number of a new query coroutine
FreeQuery == CHOOSE q \in 1..(MaxQueries + 1) : q \notin DOMAIN queries

\* what a query returns: an answer is the generated text, insights the
\* annotations of the quantum synthesizer; generations counts the calls of
\* phi4_wingman.generate_specialized_response
QueryResult(k, status, answer, insights) ==
    [ op |-> "query", kb_name |-> k.kb_name, query |-> k.query,
      max_results |-> k.max_results,
      include_cognitive_insights |-> k.include_cognitive_insights,
      status |-> status, path |-> k.path, relevant_chunks |-> k.relevant_chunks,
      generations |-> k.generations, answer |-> answer, insights |-> insights ]

\* a query that calls the wingman whatever the retrieval returned
GenerateAlways(k) ==
    IF ~model_loaded
    THEN /\ last' = QueryResult([k EXCEPT !.generations = 1], "failed", FALSE, FALSE)
         /\ UNCHANGED queries
    ELSE /\ Cardinality(DOMAIN queries) < MaxQueries
         /\ queries' = Put(queries, FreeQuery,
                           [k EXCEPT !.generations = 1, !.pc = "generate"])
         /\ UNCHANGED last

\* a query that calls the wingman a second time when the first call raises,
\* and answers without the generated text when the second raises too
GenerateTwice(k) ==
    IF k.relevant_chunks = <<>>
    THEN /\ last' = QueryResult(k, "no_results", FALSE, FALSE)
         /\ UNCHANGED queries
    ELSE IF ~model_loaded
    THEN /\ last' = QueryResult([k EXCEPT !.generations = 2], "ok", FALSE, FALSE)
         /\ UNCHANGED queries
    ELSE /\ Cardinality(DOMAIN queries) < MaxQueries
         /\ queries' = Put(queries, FreeQuery,
                           [k EXCEPT !.generations = 1, !.pc = "generate"])
         /\ UNCHANGED last

\* _query_knowledge_base after the retrieval: without relevant chunks it
\* returns its message; else _generate_rag_response calls the wingman, which
\* raises when its model is not loaded (execute returns the error), and awaits it
AfterRetrieval(k) ==
    IF k.relevant_chunks = <<>>
    THEN /\ last' = QueryResult(k, "no_results", FALSE, FALSE)
         /\ UNCHANGED queries
    ELSE IF ~model_loaded
    THEN /\ last' = QueryResult([k EXCEPT !.generations = 1], "failed", FALSE, FALSE)
         /\ UNCHANGED queries
    ELSE /\ Cardinality(DOMAIN queries) < MaxQueries
         /\ queries' = Put(queries, FreeQuery,
                           [k EXCEPT !.generations = 1, !.pc = "generate"])
         /\ UNCHANGED last

\* the locals of a query of the knowledge base of directory d after retrieval
NewQuery(kb_name, query, max_results, include_cognitive_insights, d) ==
    [ kb_name |-> kb_name, query |-> query, max_results |-> max_results,
      include_cognitive_insights |-> include_cognitive_insights, path |-> d,
      relevant_chunks |-> retrieve_relevant_chunks(fs[d], query, max_results,
                                                   hash_seed),
      generations |-> 0, pc |-> "retrieve" ]

\* _query_knowledge_base for the knowledge base of directory d, or its error
\* messages
QueryOf(d, kb_name, query, max_results, include_cognitive_insights) ==
    IF kb_name = <<>> \/ query = <<>>
    THEN /\ last' = [op |-> "query", kb_name |-> kb_name, query |-> query,
                     max_results |-> max_results, status |-> "required"]
         /\ UNCHANGED queries
    ELSE IF d = NoPath
    THEN /\ last' = [op |-> "query", kb_name |-> kb_name, query |-> query,
                     max_results |-> max_results, status |-> "not_found"]
         /\ UNCHANGED queries
    ELSE AfterRetrieval(NewQuery(kb_name, query, max_results,
                                 include_cognitive_insights, d))

\* query, from the call to its first suspension or to its return
QueryKnowledgeBase(kb_name, query, max_results, include_cognitive_insights) ==
    /\ UNCHANGED <<fs, calls, connection_status, hash_seed, chunker, model_loaded,
                   sessions>>
    /\ QueryOf(load_knowledge_base_config(fs, kb_name), kb_name, query, max_results,
               include_cognitive_insights)

\* generate_specialized_response returns: with insights asked for,
\* invoke_quantum_synthesizer is called, which raises when the bridge is not
\* connected (nothing in _generate_rag_response catches it: execute returns the
\* error), and is awaited; else the answer is returned
ResumeGeneration(q) ==
    /\ q \in DOMAIN queries
    /\ queries[q].pc = "generate"
    /\ UNCHANGED <<fs, calls, connection_status, hash_seed, chunker, model_loaded,
                   sessions>>
    /\ IF ~queries[q].include_cognitive_insights
       THEN /\ last' = QueryResult(queries[q], "ok", TRUE, FALSE)
            /\ queries' = Remove(queries, q)
       ELSE IF connection_status # "connected"
       THEN /\ last' = QueryResult(queries[q], "failed", FALSE, FALSE)
            /\ queries' = Remove(queries, q)
       ELSE /\ queries' = [queries EXCEPT ![q].pc = "synthesize"]
            /\ UNCHANGED last

\* invoke_quantum_synthesizer returns: the answer is returned with the insights
ResumeSynthesis(q) ==
    /\ q \in DOMAIN queries
    /\ queries[q].pc = "synthesize"
    /\ UNCHANGED <<fs, calls, connection_status, hash_seed, chunker, model_loaded,
                   sessions>>
    /\ last' = QueryResult(queries[q], "ok", TRUE, TRUE)
    /\ queries' = Remove(queries, q)

(***************************************************************************)
(* The process and the core bridge.                                        *)
(***************************************************************************)
\* The server process ends and another starts and initializes: the coroutines
\* are gone, their open transactions are rolled back, str hashes are keyed by a
\* new seed, and the new process has answered nothing yet.
Restart(seed) ==
    /\ fs' = Collected(fs)
    /\ calls' = EmptyMap
    /\ hash_seed' = seed
    /\ connection_status' = "connected"
    /\ last' = [op |-> "none"]
    /\ model_loaded' = TRUE
    /\ queries' = EmptyMap
    /\ sessions' = EmptyMap
    /\ UNCHANGED chunker

BridgeInitialize ==
    /\ connection_status # "connected"
    /\ connection_status' = "connected"
    /\ UNCHANGED <<fs, calls, hash_seed, last, chunker, rest>>

BridgeDisconnect ==
    /\ connection_status = "connected"
    /\ connection_status' = "disconnected"
    /\ UNCHANGED <<fs, calls, hash_seed, last, chunker, rest>>

\* phi4_wingman.initialize() and shutdown()
WingmanInitialize ==
    /\ ~model_loaded
    /\ model_loaded' = TRUE
    /\ UNCHANGED <<fs, calls, connection_status, hash_seed, last, chunker, queries,
                   sessions>>

WingmanShutdown ==
    /\ model_loaded
    /\ model_loaded' = FALSE
    /\ UNCHANGED <<fs, calls, connection_status, hash_seed, last, chunker, queries,
                   sessions>>

(***************************************************************************)
(* The chunking loop on its own, one iteration of the while loop a step.   *)
(***************************************************************************)
ChunkStep ==
    /\ chunker.pc = "run"
    /\ chunker.start < Len(chunker.content)
    /\ LET end == ChunkEnd(chunker.content, chunker.start)
           next == NextStart(chunker.start, end)
       IN  chunker' = [chunker EXCEPT
               !.chunks = ChunkAppend(chunker.content, chunker.start, @),
               !.start = next,
               !.pc = IF next >= Len(chunker.content) THEN "done" ELSE "run"]
    /\ UNCHANGED <<fs, calls, connection_status, hash_seed, last, rest>>

\* the while condition fails on entry: the content is empty
ChunkReturn ==
    /\ chunker.pc = "run"
    /\ ~(chunker.start < Len(chunker.content))
    /\ chunker' = [chunker EXCEPT !.pc = "done"]
    /\ UNCHANGED <<fs, calls, connection_status, hash_seed, last, rest>>

(***************************************************************************)
(* The synthesis tool.  A session is a SynthesisSession, a pattern and a   *)
(* work item are Python dicts: records whose domain is the keys of the     *)
(* dict, so that a subscript with a missing key is seen (it raises         *)
(* KeyError).  uuid4 values are fresh: a session id is the lowest unused   *)
(* number, a pattern id is a prefix with the number of the analysis that   *)
(* made it; the ids of work items are left out.  No handler awaits a       *)
(* suspending call, so each runs as one step of the event loop.            *)
(***************************************************************************)
\* sessions held by the tool
MaxSessions == 1

\* analyses run by the tool
MaxAnalyses == 2

\* the documents argument of start, as the ids of the documents
SynthesisDocuments == { <<>>, <<"doc1">>, <<"doc1", "doc2">> }

\* the synthesis_type argument of generate: the available_types, and a missing one
AvailableTypes == {"features", "architecture", "roadmap", "gaps", "opportunities"}

SynthesisTypes == AvailableTypes \cup {"None"}

UnknownPattern == <<"unknown", 0>>

\* the templates of self.frameworks, in the order of the dict, made by analysis g
scamper_framework(documents, g) ==
    [ id |-> <<"scamper-template", g>>, framework |-> "SCAMPER",
      template_type |-> "creative_analysis", document_refs |-> documents ]

cross_pollination_framework(documents, g) ==
    [ id |-> <<"cross", g>>, framework |-> "Cross-Pollination",
      type |-> "adaptation", name |-> "Cross-Domain Application",
      source_docs |-> documents, confidence |-> 70 ]

gap_analysis_framework(documents, g) ==
    [ id |-> <<"gap", g>>, framework |-> "Gap Analysis",
      type |-> "gap", name |-> "Missing Implementation",
      source_docs |-> documents, confidence |-> 90 ]

emergence_framework(documents, g) ==
    [ id |-> <<"emerge", g>>, framework |-> "Emergence",
      type |-> "opportunity", name |-> "Emergent Possibility",
      source_docs |-> documents, confidence |-> 60 ]

practical_framework(documents, g) ==
    [ id |-> <<"practical", g>>, framework |-> "Practical Application",
      type |-> "implementation", name |-> "Ready to Implement",
      source_docs |-> documents, confidence |-> 85 ]

framework_templates(documents, g) ==
    << scamper_framework(documents, g), cross_pollination_framework(documents, g),
       gap_analysis_framework(documents, g), emergence_framework(documents, g),
       practical_framework(documents, g) >>

\* {p["id"] for p in patterns}
PatternIds(patterns) == {patterns[n].id : n \in 1..Len(patterns)}

\* a subscript pattern[key] of one of the patterns raises KeyError
KeyErrorIn(patterns, key) == \E n \in 1..Len(patterns) : key \notin DOMAIN patterns[n]

Raised(error) == [raised |-> TRUE, error |-> error]

Returned(work_items) == [raised |-> FALSE, work_items |-> work_items]

\* the patterns a generator makes work items of: those of a type it takes
OfType(patterns, types) == SelectSeq(patterns, LAMBDA p : p.type \in types)

generate_features(patterns) ==
    IF KeyErrorIn(patterns, "type") THEN Raised("KeyError")
    ELSE LET kept == OfType(patterns, {"combination", "opportunity", "adaptation"})
         IN  Returned([n \in 1..Len(kept) |->
                 [ type |-> "feature", title |-> kept[n].name,
                   pattern_id |-> kept[n].id,
                   priority |-> IF kept[n].confidence > 80 THEN "high" ELSE "medium" ]])

generate_architecture(patterns) ==
    IF KeyErrorIn(patterns, "type") THEN Raised("KeyError")
    ELSE LET kept == OfType(patterns, {"implementation", "combination"})
         IN  Returned([n \in 1..Len(kept) |->
                 [ type |-> "architecture", title |-> kept[n].name,
                   pattern_id |-> kept[n].id, status |-> "proposed" ]])

\* sorted(patterns, key=confidence, reverse=True): descending and stable
SortByConfidence(patterns) ==
    LET before(m, n) ==
            \/ patterns[m].confidence > patterns[n].confidence
            \/ patterns[m].confidence = patterns[n].confidence /\ m < n
        at(i) == CHOOSE n \in 1..Len(patterns) :
                     Cardinality({m \in 1..Len(patterns) : before(m, n)}) = i - 1
    IN  [i \in 1..Len(patterns) |-> patterns[at(i)]]

generate_roadmap(patterns) ==
    IF KeyErrorIn(patterns, "confidence") THEN Raised("KeyError")
    ELSE LET sorted_patterns == SortByConfidence(patterns)
         IN  Returned([n \in 1..Len(sorted_patterns) |->
                 [ type |-> "roadmap", phase |-> ((n - 1) \div 3) + 1,
                   title |-> sorted_patterns[n].name,
                   pattern_id |-> sorted_patterns[n].id, priority |-> n ]])

generate_gaps(patterns) ==
    IF KeyErrorIn(patterns, "type") THEN Raised("KeyError")
    ELSE LET kept == OfType(patterns, {"gap"})
         IN  Returned([n \in 1..Len(kept) |->
                 [ type |-> "gap", area |-> kept[n].name, pattern_id |-> kept[n].id,
                   importance |-> IF kept[n].confidence > 80 THEN "high" ELSE "medium" ]])

generate_opportunities(patterns) ==
    IF KeyErrorIn(patterns, "type") THEN Raised("KeyError")
    ELSE LET kept == OfType(patterns, {"opportunity", "emergence"})
         IN  Returned([n \in 1..Len(kept) |->
                 [ type |-> "opportunity", title |-> kept[n].name,
                   pattern_id |-> kept[n].id,
                   potential |-> IF kept[n].confidence > 70 THEN "high" ELSE "medium" ]])

\* the if/elif chain of _generate_work
Generated(selected_patterns, synthesis_type) ==
    CASE synthesis_type = "features" -> generate_features(selected_patterns)
      [] synthesis_type = "architecture" -> generate_architecture(selected_patterns)
      [] synthesis_type = "roadmap" -> generate_roadmap(selected_patterns)
      [] synthesis_type = "gaps" -> generate_gaps(selected_patterns)
      [] synthesis_type = "opportunities" -> generate_opportunities(selected_patterns)
      [] OTHER -> Returned(<<>>)

\* the session id a call is made with: one of a session, or one of none
SessionIds == 1..(MaxSessions + 1)

InvalidSession(action, session_id) ==
    [ op |-> action, session_id |-> session_id, status |-> "error",
      error |-> "Invalid session ID" ]

\* the number of the next analysis: above the one of every pattern there is
NextAnalysis ==
    1 + Cardinality({g \in 1..MaxAnalyses :
                        \E s \in DOMAIN sessions :
                            /\ sessions[s].patterns # <<>>
                            /\ sessions[s].patterns[1].id[2] >= g})

\* action "start"
StartSession(documents) ==
    /\ Cardinality(DOMAIN sessions) < MaxSessions
    /\ LET session_id == CHOOSE s \in 1..MaxSessions : s \notin DOMAIN sessions
       IN  /\ sessions' = Put(sessions, session_id,
                              [ stage |-> "analysis", documents |-> documents,
                                patterns |-> <<>>, selected_patterns |-> <<>>,
                                generated_work |-> <<>> ])
           /\ last' = [ op |-> "start", session_id |-> session_id,
                        status |-> "Session started",
                        document_count |-> Len(documents) ]
    /\ UNCHANGED <<fs, calls, connection_status, hash_seed, chunker, model_loaded, queries>>

\* action "analyze"
AnalyzePatterns(session_id) ==
    /\ UNCHANGED <<fs, calls, connection_status, hash_seed, chunker, model_loaded, queries>>
    /\ IF session_id \notin DOMAIN sessions
       THEN /\ last' = InvalidSession("analyze", session_id)
            /\ UNCHANGED sessions
       ELSE /\ NextAnalysis <= MaxAnalyses
            /\ sessions' = [sessions EXCEPT ![session_id] =
                   [@ EXCEPT !.patterns =
                                 framework_templates(sessions[session_id].documents,
                                                     NextAnalysis),
                             !.stage = "pattern_review"]]
            /\ last' = [ op |-> "analyze", session_id |-> session_id,
                         status |-> "Pattern frameworks ready",
                         pattern_templates |->
                             framework_templates(sessions[session_id].documents,
                                                 NextAnalysis) ]

\* [pid for pid in selected_patterns if pid in valid_ids]
ValidSelection(patterns, selected_patterns) ==
    SelectSeq(selected_patterns, LAMBDA pid : pid \in PatternIds(patterns))

\* action "select_patterns"
SelectPatterns(session_id, selected_patterns) ==
    /\ UNCHANGED <<fs, calls, connection_status, hash_seed, chunker, model_loaded, queries>>
    /\ IF session_id \notin DOMAIN sessions
       THEN /\ last' = InvalidSession("select_patterns", session_id)
            /\ UNCHANGED sessions
       ELSE /\ sessions' = [sessions EXCEPT ![session_id] =
                   [@ EXCEPT !.selected_patterns =
                                 ValidSelection(sessions[session_id].patterns,
                                                selected_patterns),
                             !.stage = "generation"]]
            /\ last' = [ op |-> "select_patterns", session_id |-> session_id,
                         status |-> "Patterns selected",
                         selected_count |->
                             Len(ValidSelection(sessions[session_id].patterns,
                                                selected_patterns)) ]

\* [p for p in session.patterns if p["id"] in session.selected_patterns]
SelectedOf(session) ==
    SelectSeq(session.patterns, LAMBDA p : p.id \in Range(session.selected_patterns))

\* _generate_work with the outcome of the generator: an exception leaves the
\* session as it is and reaches the caller
WorkGenerated(session_id, synthesis_type, outcome) ==
    IF outcome.raised
    THEN /\ last' = [ op |-> "generate", session_id |-> session_id,
                      status |-> "raised", error |-> outcome.error ]
         /\ UNCHANGED sessions
    ELSE /\ sessions' = [sessions EXCEPT ![session_id] =
                [@ EXCEPT !.generated_work = outcome.work_items,
                          !.stage = "complete"]]
         /\ last' = [ op |-> "generate", session_id |-> session_id,
                      status |-> "Work generated",
                      work_items |-> outcome.work_items,
                      synthesis_type |-> synthesis_type, stage |-> "complete" ]

\* action "generate"
GenerateWork(session_id, synthesis_type) ==
    /\ UNCHANGED <<fs, calls, connection_status, hash_seed, chunker, model_loaded, queries>>
    /\ IF session_id \notin DOMAIN sessions
       THEN /\ last' = InvalidSession("generate", session_id)
            /\ UNCHANGED sessions
       ELSE WorkGenerated(session_id, synthesis_type,
                          Generated(SelectedOf(sessions[session_id]), synthesis_type))

\* action "get_status"
GetSessionStatus(session_id) ==
    /\ UNCHANGED <<fs, calls, connection_status, hash_seed, chunker, model_loaded,
                   queries, sessions>>
    /\ last' = IF session_id \notin DOMAIN sessions
               THEN InvalidSession("get_status", session_id)
               ELSE [ op |-> "get_status", session_id |-> session_id,
                      status |-> "ok",
                      stage |-> sessions[session_id].stage,
                      documents |-> Len(sessions[session_id].documents),
                      patterns_found |-> Len(sessions[session_id].patterns),
                      patterns_selected |->
                          Len(sessions[session_id].selected_patterns),
                      work_generated |-> Len(sessions[session_id].generated_work) ]

\* the selected_patterns argument of select_patterns for a session: the subsets
\* of the ids of its patterns in their order, an id twice, and an id that is
\* not of its patterns
SelectedPatternsArgs(session) ==
    LET ids == [n \in 1..Len(session.patterns) |-> session.patterns[n].id]
    IN  {SelectSeq(ids, LAMBDA pid : pid \in S) : S \in SUBSET Range(ids)}
            \cup {<<ids[n], ids[n]>> : n \in 1..Min2(Len(ids), 1)}
            \cup {<<UnknownPattern>>}

(***************************************************************************)
(* The specifications.  Init is the server after initialize(): no          *)
(* knowledge base on disk, no call in flight, the core bridge connected.   *)
(***************************************************************************)
Init ==
    /\ fs = EmptyMap
    /\ calls = EmptyMap
    /\ connection_status = "connected"
    /\ hash_seed = 0
    /\ last = [op |-> "none"]
    /\ chunker = ChunkerIdle
    /\ model_loaded = TRUE
    /\ queries = EmptyMap
    /\ sessions = EmptyMap

\* the tool: lifecycle and ingestion
Next ==
    \/ \E n \in CreateNames, d \in Descriptions : CreateKnowledgeBase(n, d)
    \/ \E n \in IngestNames, b \in LifecycleBatches, a \in BOOLEAN :
           AddDocuments(n, b, a, TRUE, {})
    \/ \E c \in 1..MaxCalls : ResumeHarmonic(c, {})
    \/ \E c \in 1..MaxCalls : ResumeQuantum(c, {})
    \/ CollectGarbage
    \/ \E n \in KBNames : GetKnowledgeBaseInfo(n)
    \/ \E n \in KBNames, cf \in BOOLEAN : DeleteKnowledgeBase(n, cf)

Spec == Init /\ [][Next]_vars

\* ingestion into knowledge bases that are never deleted
NextIngest ==
    \/ \E n \in KBNames, d \in Descriptions : CreateKnowledgeBase(n, d)
    \/ \E n \in IngestNames, b \in Batches, a \in BOOLEAN, ch \in BOOLEAN,
          g \in CollectPoints : AddDocuments(n, b, a, ch, g)
    \/ \E c \in 1..MaxCalls, g \in CollectPoints : ResumeHarmonic(c, g)
    \/ \E c \in 1..MaxCalls, g \in CollectPoints : ResumeQuantum(c, g)
    \/ CollectGarbage

SpecIngest == Init /\ [][NextIngest]_vars

\* retrieval: documents are ingested without analysis, queried, and the server
\* process restarts
NextQuery ==
    \/ \E n \in QueryNames, d \in Descriptions : CreateKnowledgeBase(n, d)
    \/ \E n \in QueryNames, b \in QueryBatches : AddDocuments(n, b, FALSE, TRUE, {})
    \/ \E n \in QueryNames, q \in Queries, k \in MaxResultsArgs :
           QueryKnowledgeBase(n, q, k, FALSE)
    \/ \E q \in 1..MaxQueries : ResumeGeneration(q)
    \/ \E s \in Seeds : Restart(s)

SpecQuery == Init /\ [][NextQuery]_vars

\* the analysis of the chunks with the core bridge going up and down
NextBridge ==
    \/ \E n \in QueryNames, d \in Descriptions : CreateKnowledgeBase(n, d)
    \/ \E n \in QueryNames, b \in BatchesOf({"cats.md", "mid.md"}) :
           AddDocuments(n, b, TRUE, TRUE, {})
    \/ \E c \in 1..MaxCalls : ResumeHarmonic(c, {})
    \/ \E c \in 1..MaxCalls : ResumeQuantum(c, {})
    \/ BridgeInitialize
    \/ BridgeDisconnect

SpecBridge == Init /\ [][NextBridge]_vars

\* the accounting of the batches: documents that are added, blank, repeated
\* and failing, with and without analysis and chunking
AccountBatches == BatchesOf({"cats.md", "blank.md", "long.md"})

NextAccount ==
    \/ \E n \in QueryNames, d \in Descriptions : CreateKnowledgeBase(n, d)
    \/ \E n \in QueryNames, b \in AccountBatches, a \in BOOLEAN, ch \in BOOLEAN :
           AddDocuments(n, b, a, ch, {})
    \/ \E c \in 1..MaxCalls : ResumeHarmonic(c, {})
    \/ \E c \in 1..MaxCalls : ResumeQuantum(c, {})
    \/ CollectGarbage

SpecAccount == Init /\ [][NextAccount]_vars

\* the management of knowledge bases: calls that complete before the next starts
NewDescriptions == {None, Some("cats")}

NewCognitiveSystems == {None, Some(<<"harmonic_analysis">>)}

ManageBatches == BatchesOf({"cats.md", "long.md"})

NextManage ==
    \/ \E n \in KBNames, d \in Descriptions : CreateKnowledgeBase(n, d)
    \/ \E n \in KBNames, b \in ManageBatches, ch \in BOOLEAN :
           AddDocuments(n, b, FALSE, ch, {})
    \/ CollectGarbage
    \/ \E n \in KBNames, d \in NewDescriptions, s \in NewCognitiveSystems :
           UpdateKnowledgeBase(n, d, s)
    \/ \E n \in KBNames : GetKnowledgeBaseInfo(n)
    \/ ListKnowledgeBases
    \/ \E n \in KBNames : QueryKnowledgeBase(n, T_cat, MaxResults, FALSE)
    \/ \E q \in 1..MaxQueries : ResumeGeneration(q)
    \/ \E n \in KBNames, cf \in BOOLEAN : DeleteKnowledgeBase(n, cf)

SpecManage == Init /\ [][NextManage]_vars

\* ingestion with chunking, observed by info while calls are suspended
AtomicBatches == BatchesOf({"cats.md", "two.md", "long.md"})

NextAtomic ==
    \/ \E n \in QueryNames, d \in Descriptions : CreateKnowledgeBase(n, d)
    \/ \E n \in QueryNames, b \in AtomicBatches, a \in BOOLEAN :
           AddDocuments(n, b, a, TRUE, {})
    \/ \E c \in 1..MaxCalls : ResumeHarmonic(c, {})
    \/ \E c \in 1..MaxCalls : ResumeQuantum(c, {})
    \/ CollectGarbage
    \/ \E n \in QueryNames : GetKnowledgeBaseInfo(n)

SpecAtomic == Init /\ [][NextAtomic]_vars

\* the answer to a query, with the wingman and the core bridge going up and down
AnswerBatches == BatchesOf({"cats.md"}) \ {<<>>}

AnswerQueries == {T_cat, <<"b", "i", "t", "s">>}

NextAnswer ==
    \/ \E n \in QueryNames, d \in Descriptions : CreateKnowledgeBase(n, d)
    \/ \E n \in QueryNames, b \in AnswerBatches : AddDocuments(n, b, FALSE, TRUE, {})
    \/ \E n \in QueryNames, q \in AnswerQueries, i \in BOOLEAN :
           QueryKnowledgeBase(n, q, MaxResults, i)
    \/ \E q \in 1..MaxQueries : ResumeGeneration(q)
    \/ \E q \in 1..MaxQueries : ResumeSynthesis(q)
    \/ BridgeInitialize
    \/ BridgeDisconnect
    \/ WingmanInitialize
    \/ WingmanShutdown

SpecAnswer == Init /\ [][NextAnswer]_vars

\* the chunking loop
InitChunk ==
    /\ fs = EmptyMap
    /\ calls = EmptyMap
    /\ connection_status = "connected"
    /\ hash_seed = 0
    /\ last = [op |-> "none"]
    /\ chunker \in {[pc |-> "run", content |-> c, start |-> 0, chunks |-> <<>>] :
                       c \in ChunkContents}
    /\ model_loaded = TRUE
    /\ queries = EmptyMap
    /\ sessions = EmptyMap

NextChunk ==
    \/ ChunkStep
    \/ ChunkReturn

SpecChunk == InitChunk /\ [][NextChunk]_vars

\* the synthesis tool
NextSynthesis ==
    \/ \E d \in SynthesisDocuments : StartSession(d)
    \/ \E s \in SessionIds : AnalyzePatterns(s)
    \/ \E s \in SessionIds :
           \E p \in IF s \in DOMAIN sessions
                     THEN SelectedPatternsArgs(sessions[s])
                     ELSE {<<UnknownPattern>>} :
               SelectPatterns(s, p)
    \/ \E s \in SessionIds, t \in SynthesisTypes : GenerateWork(s, t)
    \/ \E s \in SessionIds : GetSessionStatus(s)

SpecSynthesis == Init /\ [][NextSynthesis]_vars


(***************************************************************************)
(* The properties of the specification.                                    *)
(***************************************************************************)
\* the documents of directory d whose fingerprint is content_hash
StoredWith(F, d, content_hash) ==
    {i \in 1..Len(F[d].documents) : F[d].documents[i].content_hash = content_hash}

\* the result of a completed add_documents call for the single document f
IsResultOfSingle(result, f) ==
    /\ result.op = "add_documents"
    /\ result.status = "ok"
    /\ result.documents = <<f>>

\* The document f of the call `last` is the result of is sent again, to be
\* chunked and not analysed, and the call returns.
RepeatsLast(f, g) ==
    /\ calls = EmptyMap
    /\ IsResultOfSingle(last, f)
    /\ ~Processed(hash_seed, f).blank
    /\ last.path \in DOMAIN fs
    /\ AddDocuments(last.kb_name, <<f>>, FALSE, TRUE, g)
    /\ calls' = EmptyMap

\* C1: when add_documents is called a second time with the same non-empty
\* content, exactly one document with that content is stored, the second call
\* reports the document as skipped, and the document and chunk counts of the
\* knowledge base are what they were after the first call.
C1_IdempotentIngestion ==
    [][\A f \in DOMAIN Corpus, g \in CollectPoints :
          RepeatsLast(f, g) =>
              /\ Cardinality(StoredWith(fs', last.path,
                                        Processed(hash_seed, f).content_hash)) = 1
              /\ IsResultOfSingle(last', f)
              /\ last'.added = <<>>
              /\ last'.skipped = <<f>>
              /\ Len(fs'[last.path].documents) = Len(fs[last.path].documents)
              /\ Len(fs'[last.path].chunks) = Len(fs[last.path].chunks)
              /\ fs'[last.path].config = fs[last.path].config]_vars

\* the offsets of content that no chunk's [start, end) holds
Uncovered(content, chunks) ==
    {o \in 0..(Len(content) - 1) :
        \A n \in 1..Len(chunks) : ~(chunks[n].start <= o /\ o < chunks[n].end)}

\* C2: when the chunking of a document has ended, every non-whitespace
\* character of the document lies in the [start, end) range of a chunk.
C2_ChunkCoverage ==
    chunker.pc = "done" =>
        \A o \in Uncovered(chunker.content, chunker.chunks) :
            IsSpace(chunker.content[o + 1])

\* C3: when no add_documents call is in flight, whatever calls interleaved at
\* their suspension points before, the document_count and chunk_count of the
\* metadata of every knowledge base are the numbers of documents and chunks
\* stored.
C3_NoLostMetadataUpdate ==
    calls = EmptyMap =>
        \A d \in DOMAIN fs :
            /\ fs[d].config.document_count = Len(fs[d].documents)
            /\ fs[d].config.chunk_count = Len(fs[d].chunks)

\* a call that stored documents has returned after another call on the same
\* knowledge base returned while it was suspended
C3_Witness ==
    /\ calls = EmptyMap
    /\ last.op = "add_documents"
    /\ last.status = "ok"
    /\ last.overlapped
    /\ last.added # <<>>
    /\ Len(fs[last.path].documents) > 0

\* C4: in every state, no two documents stored in a knowledge base have the
\* same content fingerprint.
C4_FingerprintUniqueness ==
    \A d \in DOMAIN fs :
        \A i, j \in 1..Len(fs[d].documents) :
            i # j => fs[d].documents[i].content_hash # fs[d].documents[j].content_hash

\* a call has skipped a document whose content is stored, in a knowledge base
\* of two documents
C4_Witness ==
    /\ last.op = "add_documents"
    /\ last.status = "ok"
    /\ last.path \in DOMAIN fs
    /\ Len(fs[last.path].documents) = 2
    /\ \E n \in 1..Len(last.skipped) :
           StoredWith(fs, last.path,
                      Processed(hash_seed, last.skipped[n]).content_hash) # {}

\* C5: a delete that is not confirmed leaves every knowledge base, with its
\* documents, chunks and metadata, and every open transaction as they are, and
\* answers a knowledge base name with the request to confirm.
C5_UnconfirmedDeleteKeepsAll ==
    [][\A n \in KBNames :
          DeleteKnowledgeBase(n, FALSE) =>
              /\ fs' = fs
              /\ calls' = calls
              /\ n # <<>> => last'.status = "confirm_required"]_vars

\* an unconfirmed delete of a knowledge base that holds documents was answered
C5_Witness ==
    /\ last.op = "delete"
    /\ ~last.confirm
    /\ last.status = "confirm_required"
    /\ load_knowledge_base_config(fs, last.kb_name) # NoPath
    /\ Len(fs[load_knowledge_base_config(fs, last.kb_name)].documents) > 0

\* C6: a confirmed delete of an existing knowledge base removes its directory
\* with all documents, chunks and metadata; a name that resolves to no
\* knowledge base resolves to one again only by a create; and info on a name
\* that resolves to no knowledge base reports that it is not found.
C6_ConfirmedDeleteIsComplete ==
    [][/\ \A n \in KBNames :
            (/\ load_knowledge_base_config(fs, n) # NoPath
             /\ DeleteKnowledgeBase(n, TRUE))
            => /\ last'.status = "deleted"
               /\ load_knowledge_base_config(fs, n) \notin DOMAIN fs'
               /\ load_knowledge_base_config(fs', n) = NoPath
       /\ \A n \in KBNames :
            (/\ load_knowledge_base_config(fs, n) = NoPath
             /\ load_knowledge_base_config(fs', n) # NoPath)
            => \E m \in CreateNames, d \in Descriptions : CreateKnowledgeBase(m, d)
       /\ \A n \in KBNames \ {<<>>} :
            (/\ load_knowledge_base_config(fs, n) = NoPath
             /\ GetKnowledgeBaseInfo(n))
            => last'.status = "not_found"]_vars

\* C7: a query answers with at most max_results chunks, and with none when
\* the knowledge base holds no chunk.
C7_RetrievalBounded ==
    (last.op = "query" /\ last.status \in {"ok", "no_results"}) =>
        /\ Len(last.relevant_chunks) <= Max2(last.max_results, 0)
        /\ fs[last.path].chunks = <<>> =>
               last.status = "no_results" /\ last.relevant_chunks = <<>>

\* the combined score of a chunk row for a query, in a process of hash seed
\* `seed`: 0.7 * cosine similarity + 0.3 * keyword overlap
ScoreOf(chunk, query, seed) ==
    combined_score(
        calculate_cosine_similarity(create_simple_embedding(seed, query),
                                    chunk.vector_embedding),
        keyword_overlap(query, chunk.content))

\* chunk row i comes before chunk row j in the ranking of scores `score`
RankedBefore(score, i, j) ==
    score[i] > score[j] \/ (score[i] = score[j] /\ i < j)

\* result is the first k of the chunk rows that score above the threshold, by
\* descending score and, for equal scores, in the order of insertion
IsRanking(result, score, k) ==
    LET passing == {n \in DOMAIN score : AboveThreshold(score[n])}
        returned == {result[i].chunk_id : i \in 1..Len(result)}
    IN  /\ Len(result) = Min2(Max2(k, 0), Cardinality(passing))
        /\ returned \subseteq passing
        /\ \A i \in 1..Len(result) : result[i].score = score[result[i].chunk_id]
        /\ \A i, j \in 1..Len(result) :
               i < j => RankedBefore(score, result[i].chunk_id, result[j].chunk_id)
        /\ \A n \in passing \ returned, m \in returned : RankedBefore(score, m, n)

\* the scores of the chunk rows of a knowledge base, as a tuple
RECURSIVE ScoresOf(_, _, _, _)
ScoresOf(chunks, query, seed, n) ==
    IF n = 0 THEN <<>>
    ELSE Append(ScoresOf(chunks, query, seed, n - 1), ScoreOf(chunks[n], query, seed))

\* the queries that did their retrieval in the step: the ones that suspended
\* in it, and the one that returned in it without suspending
Retrieving ==
    {queries'[q] : q \in DOMAIN queries' \ DOMAIN queries}
        \cup (IF /\ queries' = queries
                 /\ last'.op = "query"
                 /\ last'.status \in {"no_results", "failed"}
              THEN {last'} ELSE {})

\* C8: the chunks the retrieval of a query returns are the chunks that score
\* strictly above 0.1, by descending combined score, equal scores in the order
\* of insertion, cut to the first max_results.
C8_RetrievalRanking ==
    [][\A k \in Retrieving :
          QueryKnowledgeBase(k.kb_name, k.query, k.max_results,
                             k.include_cognitive_insights)
          => IsRanking(k.relevant_chunks,
                       ScoresOf(fs[k.path].chunks, k.query, hash_seed,
                                Len(fs[k.path].chunks)),
                       k.max_results)]_vars

\* C9 as the specification states it: add_documents with an empty batch on an
\* existing knowledge base returns a success with zero added, zero skipped and
\* zero chunks created.
C9_EmptyBatchSucceeds ==
    [][\A n \in IngestNames, a \in BOOLEAN :
          (/\ load_knowledge_base_config(fs, n) # NoPath
           /\ AddDocuments(n, <<>>, a, TRUE, {}))
          => /\ last'.status = "ok"
             /\ last'.added = <<>>
             /\ last'.skipped = <<>>
             /\ last'.total_chunks_created = 0]_vars

\* C9: add_documents with an empty batch returns the error that the name and
\* the documents are required, and changes neither a knowledge base nor a
\* call in flight.
C9_EmptyBatchRejected ==
    [][\A n \in IngestNames, a \in BOOLEAN :
          AddDocuments(n, <<>>, a, TRUE, {}) =>
              /\ last'.status = "required"
              /\ last'.batch_size = 0
              /\ fs' = fs
              /\ calls' = calls]_vars

\* an empty batch for an existing knowledge base was answered
C9_Witness ==
    /\ last.op = "add_documents"
    /\ last.status = "required"
    /\ last.batch_size = 0
    /\ load_knowledge_base_config(fs, last.kb_name) # NoPath

\* the items of a batch whose content is empty or whitespace
BlankItems(documents) ==
    {i \in 1..Len(documents) : Processed(hash_seed, documents[i]).blank}

\* C10: when a call on a knowledge base nothing else is writing to returns,
\* the empty or whitespace-only items of its batch are reported skipped and
\* every other item of the batch is stored.
C10_PartialFailure ==
    [][(/\ last'.op = "add_documents"
        /\ last'.status = "ok"
        /\ calls = EmptyMap
        /\ calls' = EmptyMap
        /\ BlankItems(last'.documents) # {}
        /\ ~fs[last'.path].leaked_lock
        /\ \E a \in BOOLEAN, ch \in BOOLEAN, g \in CollectPoints :
               AddDocuments(last'.kb_name, last'.documents, a, ch, g))
       => \A i \in 1..Len(last'.documents) :
              IF i \in BlankItems(last'.documents)
              THEN last'.documents[i] \in Range(last'.skipped)
              ELSE StoredWith(fs', last'.path,
                              Processed(hash_seed, last'.documents[i]).content_hash)
                       # {}]_vars

\* C11: a create of a name whose sanitization names an existing directory
\* answers that the knowledge base already exists and changes nothing; a
\* create that succeeds adds a knowledge base without documents and chunks,
\* with zero counts, and changes no other one.
C11_CreateExistingOrEmpty ==
    [][\A n \in CreateNames, d \in Descriptions :
          CreateKnowledgeBase(n, d) =>
              /\ Sanitize(n) \in DOMAIN fs =>
                     last'.status = "already_exists" /\ fs' = fs
              /\ last'.status = "created" =>
                     /\ DOMAIN fs' = DOMAIN fs \cup {Sanitize(n)}
                     /\ \A e \in DOMAIN fs : fs'[e] = fs[e]
                     /\ fs'[Sanitize(n)].documents = <<>>
                     /\ fs'[Sanitize(n)].chunks = <<>>
                     /\ fs'[Sanitize(n)].config.document_count = 0
                     /\ fs'[Sanitize(n)].config.chunk_count = 0]_vars

\* a create was refused for a name that is not the name of the knowledge base
\* its sanitization names, which holds documents
C11_Witness ==
    /\ last.op = "create"
    /\ last.status = "already_exists"
    /\ Sanitize(last.kb_name) \in DOMAIN fs
    /\ fs[Sanitize(last.kb_name)].config.name # last.kb_name
    /\ Len(fs[Sanitize(last.kb_name)].documents) > 0

\* C12: when the generated text of a query that asked for insights is there
\* and the quantum synthesizer fails, the query returns the answer, without
\* insights.
C12_AnalysisFailureKeepsAnswer ==
    [][\A q \in DOMAIN queries :
          (/\ ResumeGeneration(q)
           /\ queries[q].include_cognitive_insights
           /\ connection_status # "connected")
          => /\ last'.status = "ok"
             /\ last'.answer
             /\ ~last'.insights]_vars

\* the result of a query that got as far as the retrieval
IsRetrievalResult(result) ==
    result.op = "query" /\ result.status \in {"ok", "failed", "no_results"}

\* C14: a query calls the wingman exactly when its retrieval returned a
\* chunk; without a chunk it returns the message that nothing relevant was
\* found, which is no error, with no generated text and no insights.
C14_ZeroResultBranch ==
    /\ \A q \in DOMAIN queries :
           queries[q].relevant_chunks # <<>> /\ queries[q].generations = 1
    /\ IsRetrievalResult(last) =>
           /\ last.generations >= 1 <=> last.relevant_chunks # <<>>
           /\ last.status = "no_results" <=> last.relevant_chunks = <<>>
           /\ last.status = "no_results" => ~last.answer /\ ~last.insights

\* a query of a knowledge base that holds chunks found nothing relevant
C14_Witness ==
    /\ IsRetrievalResult(last)
    /\ last.status = "no_results"
    /\ last.path \in DOMAIN fs
    /\ fs[last.path].chunks # <<>>

\* C15: a query calls the wingman at most once; when that call raises, the
\* query returns an error, without generated text, and the store is as it was.
C15_NoRetry ==
    [][/\ \A q \in DOMAIN queries' : queries'[q].generations <= 1
       /\ IsRetrievalResult(last') => last'.generations <= 1
       /\ \A k \in Retrieving :
            (/\ QueryKnowledgeBase(k.kb_name, k.query, k.max_results,
                                   k.include_cognitive_insights)
             /\ k.relevant_chunks # <<>>
             /\ ~model_loaded)
            => /\ last' = k
               /\ last'.status = "failed"
               /\ last'.generations = 1
               /\ ~last'.answer
               /\ fs' = fs]_vars

\* a query that asked for no insights has returned an error
C15_Witness ==
    /\ IsRetrievalResult(last)
    /\ last.status = "failed"
    /\ ~last.include_cognitive_insights
    /\ last.generations = 1
    /\ last.relevant_chunks # <<>>

\* the rows of table chunks of directory d for the document of id document_id
ChunksStoredFor(F, d, document_id) ==
    SelectSeq(F[d].chunks, LAMBDA row : row.document_id = document_id)

\* the chunk ids of directory d that an analysis row of system_name refers to
AnalysedBy(F, d, system_name) ==
    {F[d].cognitive_analysis[n].chunk_id :
        n \in {m \in 1..Len(F[d].cognitive_analysis) :
                  F[d].cognitive_analysis[m].system_name = system_name}}

Enumerate(chunks) ==
    [n \in 1..Len(chunks) |-> [chunk_index |-> n - 1, chunk |-> chunks[n]]]

\* C16: at every point of the chunking of a document, the chunks produced so
\* far are numbered 0, 1, 2, ... in the order of their production, and of two
\* chunks the one with the larger index has the strictly larger start offset.
C16_ChunkOrdering ==
    chunker.pc \in {"run", "done"} =>
        LET rows == Enumerate(chunker.chunks) IN
        /\ \A n \in 1..Len(rows) :
               /\ rows[n].chunk_index = n - 1
               /\ n > 1 => rows[n].chunk_index > rows[n - 1].chunk_index
        /\ \A m, n \in 1..Len(rows) :
               rows[m].chunk_index < rows[n].chunk_index
                   => rows[m].chunk.start < rows[n].chunk.start

\* the chunking of a document has ended with three chunks, one of which ends
\* at a sentence end
C16_Witness ==
    /\ chunker.pc = "done"
    /\ Len(chunker.chunks) >= 3
    /\ \E n \in 1..Len(chunker.chunks) :
           /\ chunker.chunks[n].end < Len(chunker.content)
           /\ chunker.chunks[n].end - chunker.chunks[n].start < chunk_size

\* C17: every chunk produced for a document has 0 <= start < end <=
\* len(content).
C17_ChunkOffsets ==
    chunker.pc \in {"run", "done"} =>
        \A n \in 1..Len(chunker.chunks) :
            /\ 0 <= chunker.chunks[n].start
            /\ chunker.chunks[n].start < chunker.chunks[n].end
            /\ chunker.chunks[n].end <= Len(chunker.content)

\* the chunking has ended with a last chunk shorter than the window, which
\* ends where the content ends
C17_Witness ==
    /\ chunker.pc = "done"
    /\ Len(chunker.chunks) >= 2
    /\ LET c == chunker.chunks[Len(chunker.chunks)]
       IN  c.end = Len(chunker.content) /\ c.end - c.start < chunk_size

\* C18: the embedding stored with every chunk is the embedding the running
\* server computes for the text of the chunk, whichever run of the server
\* stored it; and the embedding of the empty string is the all-zero vector.
C18_EmbeddingDeterminism ==
    /\ \A d \in DOMAIN fs :
           \A n \in 1..Len(fs[d].chunks) :
               fs[d].chunks[n].vector_embedding
                   = create_simple_embedding(hash_seed, fs[d].chunks[n].content)
    /\ create_simple_embedding(hash_seed, <<>>).mag2 = 0
    /\ DOMAIN create_simple_embedding(hash_seed, <<>>).num = {}

\* C19: when the text of a query asking for a chunk or more is the whole text
\* of a stored chunk, no chunk of the knowledge base has a higher combined
\* score than that chunk, and the first chunk returned has its score.
C19_ExactMatchRanksFirst ==
    [][\A k \in Retrieving :
          (/\ QueryKnowledgeBase(k.kb_name, k.query, k.max_results,
                                 k.include_cognitive_insights)
           /\ k.max_results >= 1)
          => \A n \in 1..Len(fs[k.path].chunks) :
                 fs[k.path].chunks[n].content = k.query =>
                     /\ \A m \in 1..Len(fs[k.path].chunks) :
                            ScoreOf(fs[k.path].chunks[n], k.query, hash_seed)
                                >= ScoreOf(fs[k.path].chunks[m], k.query, hash_seed)
                     /\ k.relevant_chunks # <<>>
                     /\ k.relevant_chunks[1].score
                            = ScoreOf(fs[k.path].chunks[n], k.query, hash_seed)]_vars

\* selected_patterns is a list of ids of patterns of the session, none twice
IsSubsetOfPatterns(session, selected_patterns) ==
    /\ Range(selected_patterns) \subseteq PatternIds(session.patterns)
    /\ \A m, n \in 1..Len(selected_patterns) :
           selected_patterns[m] = selected_patterns[n] => m = n

\* C20: in a session that start created, analyze returns the pattern
\* templates; then select_patterns with any subset of their ids selects these
\* ids; then generate with any of the available types returns work items and
\* completes the session; and a get_status after the generate reports the
\* stage complete and as many patterns selected as ids were selected.
C20_SynthesisWorkflow ==
    [][\A s \in DOMAIN sessions :
          /\ (AnalyzePatterns(s) /\ sessions[s].stage = "analysis")
                 => /\ last'.status = "Pattern frameworks ready"
                    /\ sessions'[s].stage = "pattern_review"
          /\ \A p \in SelectedPatternsArgs(sessions[s]) :
                 (/\ SelectPatterns(s, p)
                  /\ sessions[s].stage = "pattern_review"
                  /\ IsSubsetOfPatterns(sessions[s], p))
                 => /\ last'.status = "Patterns selected"
                    /\ last'.selected_count = Len(p)
                    /\ sessions'[s].selected_patterns = p
                    /\ sessions'[s].stage = "generation"
          /\ \A t \in AvailableTypes :
                 (/\ GenerateWork(s, t)
                  /\ sessions[s].stage = "generation"
                  /\ IsSubsetOfPatterns(sessions[s], sessions[s].selected_patterns))
                 => /\ last'.status = "Work generated"
                    /\ sessions'[s].stage = "complete"
          /\ (/\ GetSessionStatus(s)
              /\ last.op = "generate"
              /\ last.session_id = s
              /\ IsSubsetOfPatterns(sessions[s], sessions[s].selected_patterns))
                 => /\ last'.stage = "complete"
                    /\ last'.patterns_selected = Len(sessions[s].selected_patterns)]_vars

\* C21: every iteration of the chunking loop moves the start of the window
\* strictly forward, to max(start + chunk_size - chunk_overlap, end); the loop
\* goes on only while the start is below the length of the content, so that
\* the distance of the start to the end of the content, a natural number,
\* decreases with every iteration; and the loop ends when the start reaches or
\* passes the length of the content, after which nothing is chunked.
C21_ChunkerTerminates ==
    [][/\ ChunkStep =>
             /\ chunker.start < Len(chunker.content)
             /\ chunker'.start > chunker.start
             /\ chunker'.start
                    = Max2(chunker.start + chunk_size - chunk_overlap,
                           ChunkEnd(chunker.content, chunker.start))
             /\ chunker'.pc = "done" <=> chunker'.start >= Len(chunker.content)
             /\ chunker'.pc = "run" <=> chunker'.start < Len(chunker.content)
       /\ chunker.pc = "run" => chunker'.pc \in {"run", "done"}
       /\ chunker.pc = "done" => chunker' = chunker]_vars

\* the loop has ended after a window that was cut at a sentence end, with the
\* next window starting after the end of the chunk
C21_Witness ==
    /\ chunker.pc = "done"
    /\ \E n \in 1..(Len(chunker.chunks) - 1) :
           chunker.chunks[n + 1].start > chunker.chunks[n].end

\* the chunks created for the documents of the filenames `added`
RECURSIVE ChunksCreatedFor(_, _, _)
ChunksCreatedFor(added, chunk_documents, n) ==
    IF n = 0 THEN 0
    ELSE ChunksCreatedFor(added, chunk_documents, n - 1)
             + (IF chunk_documents
                THEN Len(Processed(hash_seed, added[n]).chunks) ELSE 0)

\* the result of a call accounts for its batch: loaded is the metadata the
\* call loaded, before the metadata when it returns and after the metadata it
\* leaves
Accounts(result, loaded, before, after, chunk_documents) ==
    /\ Len(result.added) + Len(result.skipped) = Len(result.documents)
    /\ before.document_count = loaded.document_count
    /\ before.chunk_count = loaded.chunk_count
    /\ after.document_count = before.document_count + Len(result.added)
    /\ result.total_chunks_created
           = ChunksCreatedFor(result.added, chunk_documents, Len(result.added))
    /\ after.chunk_count = before.chunk_count + result.total_chunks_created
    /\ result.document_count = after.document_count
    /\ result.chunk_count = after.chunk_count

\* C22: when a call with a non-empty batch on an existing knowledge base
\* returns, at once or after it was suspended, the documents it reports added
\* and skipped are as many as the batch has, the document_count of the
\* metadata has grown by the number added and the chunk_count by the chunks
\* created for the added documents.
C22_BatchAccounting ==
    [][/\ (/\ last'.op = "add_documents"
            /\ last'.status = "ok"
            /\ DOMAIN calls' = DOMAIN calls)
           => \A a \in BOOLEAN, ch \in BOOLEAN :
                  AddDocuments(last'.kb_name, last'.documents, a, ch, {})
                      => Accounts(last', fs[last'.path].config, fs[last'.path].config,
                                  fs'[last'.path].config, ch)
       /\ \A c \in DOMAIN calls \ DOMAIN calls' :
              (/\ ResumeHarmonic(c, {}) \/ ResumeQuantum(c, {})
               /\ last'.status = "ok")
              => Accounts(last', calls[c].kb_config, fs[calls[c].kb_path].config,
                          fs'[calls[c].kb_path].config, calls[c].chunk_documents)]_vars

\* a call that was suspended has returned with a document added and one
\* skipped, in a knowledge base that held a document before
C22_Witness ==
    /\ calls = EmptyMap
    /\ last.op = "add_documents"
    /\ last.status = "ok"
    /\ Len(last.added) = 1
    /\ Len(last.skipped) = 1
    /\ last.total_chunks_created = 1
    /\ last.document_count = 2
    /\ fs[last.path].cognitive_analysis # <<>>


\* C23: under SpecManage, an update of an existing knowledge base replaces the
\* description and the cognitive systems that were supplied and nothing else
\* of config.json (name, safe name and both counts stay), leaves every stored
\* document, chunk and analysis and every other knowledge base as they were;
\* an update of a name that resolves to no knowledge base answers not found
\* and changes nothing.
C23_UpdateIsPartial ==
    [][(last' # last /\ last'.op = "update") =>
          /\ last'.status = "not_found"
                <=> /\ last'.kb_name # <<>>
                    /\ load_knowledge_base_config(fs, last'.kb_name) = NoPath
          /\ last'.status # "ok" => fs' = fs
          /\ last'.status = "ok" =>
                LET d == last'.path
                    before == fs[d].config
                    after == fs'[d].config
                IN  /\ d = load_knowledge_base_config(fs, last'.kb_name)
                    /\ DOMAIN fs' = DOMAIN fs
                    /\ \A e \in DOMAIN fs \ {d} : fs'[e] = fs[e]
                    /\ fs'[d] = [fs[d] EXCEPT !.config = after]
                    /\ DOMAIN after = DOMAIN before
                    /\ \A f \in DOMAIN before \ {"description", "cognitive_systems"} :
                           after[f] = before[f]
                    /\ after.description =
                           IF last'.new_description = None THEN before.description
                           ELSE last'.new_description[1]
                    /\ after.cognitive_systems =
                           IF last'.new_cognitive_systems = None
                           THEN before.cognitive_systems
                           ELSE last'.new_cognitive_systems[1]]_vars

\* an update that supplies the cognitive systems only, of a knowledge base
\* with a description and documents
C23_Witness ==
    /\ last.op = "update"
    /\ last.status = "ok"
    /\ last.new_description = None
    /\ last.new_cognitive_systems # None
    /\ fs[last.path].config.description = "notes"
    /\ fs[last.path].config.cognitive_systems # DefaultCognitiveSystems
    /\ fs[last.path].config.document_count > 0
    /\ fs[last.path].chunks # <<>>

\* the items of a batch that carry the content of an earlier item of the batch
RepeatedItems(documents) ==
    {i \in 1..Len(documents) :
        \E j \in 1..(i - 1) :
            Processed(hash_seed, documents[j]).content_hash
                = Processed(hash_seed, documents[i]).content_hash}

\* C24: when add_documents with chunking returns, every item of its batch
\* whose content is not blank, is not stored in the knowledge base before the
\* call and is not the content of an earlier item of the batch is reported
\* added and is stored.
C24_OnlyEmptyOrDuplicateSkipped ==
    [][(/\ last'.op = "add_documents"
        /\ last'.status = "ok"
        /\ calls = EmptyMap
        /\ calls' = EmptyMap
        /\ AddDocuments(last'.kb_name, last'.documents, FALSE, TRUE, {}))
       => \A i \in 1..Len(last'.documents) :
              LET item == Processed(hash_seed, last'.documents[i]) IN
              (/\ ~item.blank
               /\ StoredWith(fs, last'.path, item.content_hash) = {}
               /\ i \notin RepeatedItems(last'.documents))
              => /\ last'.documents[i] \in Range(last'.added)
                 /\ StoredWith(fs', last'.path, item.content_hash) # {}]_vars

\* C25: a call of info, query, add_documents, update or delete with a name
\* that create rejects, in the state of the call, as already existing does not
\* answer that the knowledge base is not found.
C25_ResolutionAgreesWithCreation ==
    [][(/\ last' # last
        /\ last'.op \in {"info", "query", "add_documents", "update", "delete"}
        /\ CreateStatus(fs, last'.kb_name) = "already_exists"
        /\ queries' = queries
        /\ calls' = calls)
       => last'.status # "not_found"]_vars

ChunksProducedFor(row) == Processed(hash_seed, row.filename).chunks

\* C27: in every state of SpecAtomic, where every call chunks its documents,
\* the rows a query or an info call reads are those of whole documents: each
\* stored document has every chunk the chunking produces for its content, in
\* order, and every chunk row belongs to a stored document, also while a call
\* is suspended in the middle of a document and after a document failed.
C27_DocumentAllOrNothing ==
    \A d \in DOMAIN fs :
        /\ \A n \in 1..Len(fs[d].chunks) :
               fs[d].chunks[n].document_id \in 1..Len(fs[d].documents)
        /\ \A i \in 1..Len(fs[d].documents) :
               LET rows == ChunksStoredFor(fs, d, i)
                   chunks == ChunksProducedFor(fs[d].documents[i])
               IN  /\ fs[d].documents[i].content_hash
                          = Processed(hash_seed, fs[d].documents[i].filename).content_hash
                   /\ Len(rows) = Len(chunks)
                   /\ \A n \in 1..Len(rows) :
                          /\ rows[n].chunk_index = n - 1
                          /\ rows[n].content = chunks[n].content
                          /\ rows[n].start_position = chunks[n].start
                          /\ rows[n].end_position = chunks[n].end

\* info has answered with one document of two chunks while a call is suspended
\* in the analysis of the first chunk of its second document
C27_Witness ==
    /\ last.op = "info"
    /\ last.status = "ok"
    /\ last.doc_count = 1
    /\ last.chunk_count = 2
    /\ \E c \in DOMAIN calls :
           /\ calls[c].idx = 2
           /\ calls[c].i >= 1
           /\ Len(fs[calls[c].kb_path].documents) = 1

\* C28: under SpecManage, where every create, add_documents, update and delete
\* completes before the next call starts, the counts list reports for a
\* knowledge base (from config.json) are the numbers of rows of its documents
\* and chunks tables, which info reports, and the counts info reports are
\* those of config.json.
C28_MetadataCountsMatchStore ==
    [][/\ (last' # last /\ last'.op = "list") =>
              \A kb \in last'.knowledge_bases :
                  LET d == load_knowledge_base_config(fs, kb.name) IN
                  /\ d # NoPath
                  /\ kb.document_count = Len(fs[d].documents)
                  /\ kb.chunk_count = Len(fs[d].chunks)
       /\ (last' # last /\ last'.op = "info" /\ last'.status = "ok") =>
              LET d == load_knowledge_base_config(fs, last'.kb_name) IN
              /\ last'.doc_count = fs[d].config.document_count
              /\ last'.chunk_count = fs[d].config.chunk_count]_vars

\* list has reported a knowledge base with documents and chunks whose
\* description an update has replaced
C28_Witness ==
    /\ last.op = "list"
    /\ \E kb \in last.knowledge_bases :
           /\ kb.description = "cats"
           /\ kb.document_count = 2
           /\ kb.chunk_count = 1

\* the place of a stage in analysis -> pattern_review -> generation -> complete
StageRank(stage) ==
    CASE stage = "analysis" -> 0
      [] stage = "pattern_review" -> 1
      [] stage = "generation" -> 2
      [] stage = "complete" -> 3

\* C29: no action moves the stage of a session backwards along analysis ->
\* pattern_review -> generation -> complete, and a session whose stage is
\* complete keeps it.
C29_StageMonotonic ==
    [][\A s \in DOMAIN sessions :
          /\ s \in DOMAIN sessions'
          /\ StageRank(sessions'[s].stage) >= StageRank(sessions[s].stage)
          /\ sessions[s].stage = "complete" => sessions'[s].stage = "complete"]_vars

\* C30: in every state, every id in the selected_patterns of a session is the
\* id of one of the patterns of the session.
C30_SelectedPatternsValid ==
    \A s \in DOMAIN sessions :
        Range(sessions[s].selected_patterns) \subseteq PatternIds(sessions[s].patterns)

====
